---- MODULE Spec2Model ----
(***************************************************************************)
(* Model of the churchtalk backend: token issuance and resolution          *)
(* (app/auth_utils.py), the signup and login endpoints, church creation,   *)
(* the membership join, and the owner-scoped news endpoints with their     *)
(* offset pagination (app/routers/*.py).  The database tables are the      *)
(* variables users, churches, members and news; every request handler is   *)
(* one action, except member_join_church, whose existence check and insert *)
(* are two steps in Spec (requests of different workers interleave there)  *)
(* and one step in SpecSeq.                                                *)
(***************************************************************************)
EXTENDS Integers, Sequences, FiniteSets, TLC

VARIABLES
    users,      \* table "user": sequence of rows, row i has id i
    churches,   \* table "churches": sequence of rows, row i has id i
    members,    \* table "church_members": sequence of rows, row i has id i
    news,       \* table "news_admin": set of rows (rows can be deleted)
    nextNewsId, \* the next id the news_admin sequence hands out
    issued,     \* the tokens handed out so far, each with the user it was handed to
    now,        \* the reading of datetime.utcnow(), in minutes
    ticks,      \* how many times the clock has advanced
    joinReqs,   \* join requests between their existence check and their insert
    last,       \* the response of the request handled last
    millis,     \* the milliseconds datetime.utcnow() reads beyond now
    stored      \* the writes made to UPLOAD_DIR: what was uploaded, when, where to

vars == << users, churches, members, news, nextNewsId, issued, now, ticks,
           joinReqs, last, millis, stored >>

----------------------------------------------------------------------------
(* Bounds of the model *)

MaxChurches == 2
MaxNews == 2
MaxMembers == 2
MaxTicks == 2
MaxRowTicks == 1
MaxLogins == 1
MaxPerPage == 2
MaxPage == 2

(* Configuration, auth_utils.py *)
JWT_ACCESS_TOKEN_EXPIRE_MINUTES == 1440

----------------------------------------------------------------------------
(* Strings are sequences of one-character strings. *)

DigitChars == << "0", "1", "2", "3", "4", "5", "6", "7", "8", "9" >>

IsDigit(c) == \E i \in 1..10 : DigitChars[i] = c

DigitVal(c) == (CHOOSE i \in 1..10 : DigitChars[i] = c) - 1

RECURSIVE StrOfInt(_)
\* str(n) of a non-negative int
StrOfInt(n) ==
    IF n < 10 THEN << DigitChars[n + 1] >>
    ELSE StrOfInt(n \div 10) \o << DigitChars[(n % 10) + 1] >>

\* str({"id": n}): the repr of a one-entry dict
StrOfIdDict(n) ==
    << "{", "'", "i", "d", "'", ":", " " >> \o StrOfInt(n) \o << "}" >>

RECURSIVE DigitsVal(_)
DigitsVal(s) ==
    IF s = << >> THEN 0
    ELSE 10 * DigitsVal(SubSeq(s, 1, Len(s) - 1)) + DigitVal(s[Len(s)])

\* int(s): the value of a string of decimal digits, ValueError otherwise
IntOfStr(s) ==
    IF s # << >> /\ \A i \in 1..Len(s) : IsDigit(s[i])
    THEN [ok |-> TRUE, val |-> DigitsVal(s)]
    ELSE [ok |-> FALSE, val |-> 0]

LowerChar(c) ==
    CASE c = "A" -> "a"
      [] c = "B" -> "b"
      [] OTHER -> c

\* str.lower()
Lower(s) == [i \in 1..Len(s) |-> LowerChar(s[i])]

RECURSIVE LStrip(_)
LStrip(s) == IF s # << >> /\ s[1] = " " THEN LStrip(Tail(s)) ELSE s

RECURSIVE RStrip(_)
RStrip(s) ==
    IF s # << >> /\ s[Len(s)] = " " THEN RStrip(SubSeq(s, 1, Len(s) - 1)) ELSE s

\* str.strip()
Strip(s) == RStrip(LStrip(s))

\* str.replace(" ", "_")
ReplaceSpaces(s) == [i \in 1..Len(s) |-> IF s[i] = " " THEN "_" ELSE s[i]]

----------------------------------------------------------------------------
(* Inputs of the requests *)

\* e-mail addresses as pydantic's EmailStr passes them on (the case of the
\* local part is kept); the domain is the same for all and left out
Emails == { << "a" >>, << "A" >> }

\* the addresses admins sign up with where the case of an address plays no part
AdminEmails == { << "a" >>, << "b" >> }

\* the passwords login is tried with, and the one accounts are created with
Passwords == { << "p" >>, << "q" >> }

SignupPasswords == { << "p" >> }

\* Python's None where an integer is optional: no user, no id, no page
None == 0

NoUser == None

NoTarget == None

\* Python values passed to create_access_token as the subject
PyInt(n) == [type |-> "int", v |-> n]
PyIdDict(n) == [type |-> "dict", v |-> n]

\* str(subject)
PyStr(x) == IF x.type = "int" THEN StrOfInt(x.v) ELSE StrOfIdDict(x.v)

----------------------------------------------------------------------------
(* app/auth_utils.py *)

hash_password(password) == [scheme |-> "pbkdf2_sha256", of |-> password]

verify_password(plain_password, hashed_password) ==
    hashed_password.of = plain_password

\* jwt.encode({"sub": str(subject), "exp": expire}, JWT_SECRET): a token is
\* its payload, whether it parses, and whether JWT_SECRET signed it
create_access_token(subject, t) ==
    [ wellformed |-> TRUE,
      sig |-> TRUE,
      payload |-> [sub |-> PyStr(subject),
                   exp |-> t + JWT_ACCESS_TOKEN_EXPIRE_MINUTES] ]

\* jwt.decode with the check of exp switched off
JwtDecodeFails_NoExpiry(token, t) ==
    \/ ~token.wellformed
    \/ ~token.sig

\* jwt.decode(token, JWT_SECRET, algorithms=[JWT_ALGORITHM]) raises a
\* JWTError for a token that does not parse, is not signed by JWT_SECRET,
\* or whose exp lies before the current time
JwtDecodeFails(token, t) ==
    \/ ~token.wellformed
    \/ ~token.sig
    \/ ("exp" \in DOMAIN token.payload /\ token.payload.exp < t)

UserIds(us) == 1..Len(us)

\* get_current_user: [status |-> 200, user |-> id] when the token resolves,
\* status 401 for credentials_exception, status 500 when int(user_id)
\* raises ValueError (no handler catches it)
get_current_user(token, us, t) ==
    IF JwtDecodeFails(token, t) THEN [status |-> 401, user |-> NoUser]
    ELSE IF "sub" \notin DOMAIN token.payload THEN [status |-> 401, user |-> NoUser]
    ELSE IF ~IntOfStr(token.payload.sub).ok THEN [status |-> 500, user |-> NoUser]
    ELSE IF IntOfStr(token.payload.sub).val \notin UserIds(us)
         THEN [status |-> 401, user |-> NoUser]
    ELSE [status |-> 200, user |-> IntOfStr(token.payload.sub).val]

\* get_current_admin: 403 for a resolved user who is not an admin
get_current_admin(token, us, t) ==
    LET r == get_current_user(token, us, t) IN
    IF r.status # 200 THEN r
    ELSE IF ~us[r.user].is_admin THEN [status |-> 403, user |-> r.user]
    ELSE r

\* Tokens nobody was handed: garbage, a foreign signature, and tokens signed
\* with JWT_SECRET that carry no subject or the id of no user
FarFuture == JWT_ACCESS_TOKEN_EXPIRE_MINUTES * (MaxTicks + 2)

ForgedTokens ==
    { [wellformed |-> FALSE, sig |-> FALSE, payload |-> [exp |-> FarFuture]],
      [wellformed |-> TRUE, sig |-> FALSE,
       payload |-> [sub |-> StrOfInt(1), exp |-> FarFuture]],
      [wellformed |-> TRUE, sig |-> TRUE, payload |-> [exp |-> FarFuture]],
      [wellformed |-> TRUE, sig |-> TRUE,
       payload |-> [sub |-> StrOfInt(9), exp |-> FarFuture]] }

\* the bearer tokens a request can carry
Presentable == { i.token : i \in issued } \cup ForgedTokens

----------------------------------------------------------------------------
(* Responses *)

\* what the model keeps of a handled request: the endpoint, the HTTP status,
\* the user the token resolved to, the id the request named, and the body
Response(op, status, caller, target, body) ==
    [op |-> op, status |-> status, caller |-> caller, target |-> target,
     body |-> body]

\* the response of a request whose Depends(get_current_user) or
\* Depends(get_current_admin) raised; a is the outcome of the dependency
AuthFailure(op, target, a) ==
    Response(op, a.status, a.user, target,
             [detail |-> CASE a.status = 401 -> "Invalid authentication credentials"
                           [] a.status = 403 -> "You are not authorized to perform this action."
                           [] OTHER -> "Internal Server Error"])

----------------------------------------------------------------------------
(* The initial state: empty tables, no request handled yet *)

Init ==
    /\ users = << >>
    /\ churches = << >>
    /\ members = << >>
    /\ news = {}
    /\ nextNewsId = 1
    /\ issued = {}
    /\ now = 0
    /\ ticks = 0
    /\ joinReqs = << >>
    /\ last = Response("none", 0, NoUser, NoTarget, [detail |-> "none"])
    /\ millis = 0
    /\ stored = {}

\* datetime.utcnow() moves on between two requests, by a minute or by the
\* lifetime of a token; two requests can also read the same instant
Tick(d) ==
    /\ ticks < MaxTicks
    /\ now' = now + d
    /\ ticks' = ticks + 1
    /\ UNCHANGED << users, churches, members, news, nextNewsId, issued,
                    joinReqs, last, millis, stored >>

\* datetime.utcnow() moves on by less than a minute
TickMillis(d) ==
    /\ ticks < MaxTicks
    /\ millis' = millis + d
    /\ ticks' = ticks + 1
    /\ UNCHANGED << users, churches, members, news, nextNewsId, issued, now,
                    joinReqs, last, stored >>

----------------------------------------------------------------------------
(* app/routers/auth.py, app/routers/members.py, app/routers/auth_login.py *)

UserByEmail(us, email) == { i \in UserIds(us) : us[i].email = email }

\* db.query(User).filter(User.email == email).first()
FirstUserByEmail(us, email) ==
    CHOOSE i \in UserByEmail(us, email) : \A j \in UserByEmail(us, email) : i <= j

NewUser(us, email, password, is_admin) ==
    [id |-> Len(us) + 1, email |-> email,
     password |-> hash_password(password), is_admin |-> is_admin]

\* POST /auth/signup
admin_signup(email, password) ==
    IF UserByEmail(users, email) # {}
    THEN /\ last' = Response("admin_signup", 400, NoUser, NoTarget,
                             [detail |-> "Email already registered"])
         /\ UNCHANGED << users, churches, members, news, nextNewsId, issued,
                         now, ticks, joinReqs, millis, stored >>
    ELSE LET user == NewUser(users, email, password, TRUE)
             token == create_access_token(PyInt(user.id), now)
         IN /\ users' = Append(users, user)
            /\ issued' = issued \cup { [token |-> token, user |-> user.id] }
            /\ last' = Response("admin_signup", 200, NoUser, NoTarget,
                                [authToken |-> token, user |-> user.id])
            /\ UNCHANGED << churches, members, news, nextNewsId, now, ticks,
                            joinReqs, millis, stored >>

\* POST /member/signup
member_signup(payload_email, password) ==
    LET email == Lower(Strip(payload_email)) IN
    IF UserByEmail(users, email) # {}
    THEN /\ last' = Response("member_signup", 400, NoUser, NoTarget,
                             [detail |-> "Email already registered"])
         /\ UNCHANGED << users, churches, members, news, nextNewsId, issued,
                         now, ticks, joinReqs, millis, stored >>
    ELSE LET user == NewUser(users, email, password, FALSE)
             token == create_access_token(PyIdDict(user.id), now)
         IN /\ users' = Append(users, user)
            /\ issued' = issued \cup { [token |-> token, user |-> user.id] }
            /\ last' = Response("member_signup", 200, NoUser, NoTarget,
                                [authToken |-> token, user |-> user.id])
            /\ UNCHANGED << churches, members, news, nextNewsId, now, ticks,
                            joinReqs, millis, stored >>

\* POST /auth/login
login(username, password) ==
    LET email == Lower(Strip(username)) IN
    IF UserByEmail(users, email) = {}
       \/ ~verify_password(password, users[FirstUserByEmail(users, email)].password)
    THEN /\ last' = Response("login", 400, NoUser, NoTarget, [detail |-> "Invalid credentials"])
         /\ UNCHANGED << users, churches, members, news, nextNewsId, issued,
                         now, ticks, joinReqs, millis, stored >>
    ELSE LET user == users[FirstUserByEmail(users, email)]
             token == create_access_token(PyInt(user.id), now)
             handed == [token |-> token, user |-> user.id]
         IN /\ handed \in issued \/ Cardinality(issued) < Len(users) + MaxLogins
            /\ issued' = issued \cup { handed }
            /\ last' = Response("login", 200, NoUser, NoTarget,
                                [authToken |-> token, user |-> user.id])
            /\ UNCHANGED << users, churches, members, news, nextNewsId, now,
                            ticks, joinReqs, millis, stored >>

----------------------------------------------------------------------------
(* Uploaded files *)

NoUpload == [present |-> FALSE, filename |-> << >>, bytes |-> << >>]

EmptyUpload == [present |-> TRUE, filename |-> << "f" >>, bytes |-> << >>]

FileUpload == [present |-> TRUE, filename |-> << "f" >>, bytes |-> << "x" >>]

\* the UploadFile values a multipart form can carry: none, an empty file,
\* a file with content
Uploads == { NoUpload, EmptyUpload, FileUpload }

\* int(datetime.utcnow().timestamp()): the whole seconds of a clock that
\* reads t minutes and ms milliseconds
UnixSeconds(t, ms) == (t * 60000 + ms) \div 1000

NoUrl == << >>

\* f"/uploads/{prefix}{ts}_{safe_name}"
UploadUrl(prefix, t, ms, filename) ==
    << "/", "u", "p", "l", "o", "a", "d", "s", "/" >> \o prefix
        \o StrOfInt(UnixSeconds(t, ms)) \o << "_" >> \o ReplaceSpaces(filename)

\* with open(filepath, "wb") as f: f.write(content): the write of one upload,
\* made at t minutes and ms milliseconds
StoredFile(prefix, t, ms, upload) ==
    [filename |-> upload.filename, at |-> << t, ms >>,
     path |-> UploadUrl(prefix, t, ms, upload.filename)]

NewsPrefix == << "n", "e", "w", "s", "_" >>

----------------------------------------------------------------------------
(* app/routers/churches.py *)

ChurchIds(chs) == 1..Len(chs)

\* POST /churches
create_church(token, logo) ==
    LET a == get_current_admin(token, users, now) IN
    IF a.status # 200
    THEN /\ last' = AuthFailure("create_church", NoTarget, a)
         /\ UNCHANGED << users, churches, members, news, nextNewsId, issued,
                         now, ticks, joinReqs, millis, stored >>
    ELSE IF logo.present /\ logo.bytes = << >>
    THEN /\ last' = Response("create_church", 400, a.user, NoTarget,
                             [detail |-> "Logo file is empty"])
         /\ UNCHANGED << users, churches, members, news, nextNewsId, issued,
                         now, ticks, joinReqs, millis, stored >>
    ELSE LET church == [id |-> Len(churches) + 1,
                        logo |-> IF logo.present
                                 THEN UploadUrl(<< >>, now, millis, logo.filename)
                                 ELSE NoUrl,
                        created_by |-> a.user]
         IN /\ Len(churches) < MaxChurches
            /\ churches' = Append(churches, church)
            /\ last' = Response("create_church", 200, a.user, NoTarget,
                                [id |-> church.id, created_by |-> church.created_by])
            /\ stored' = IF logo.present
                         THEN stored \cup { StoredFile(<< >>, now, millis, logo) }
                         ELSE stored
            /\ UNCHANGED << users, members, news, nextNewsId, issued, now,
                            ticks, joinReqs, millis >>

\* order_by(Church.id.asc()) over a set of ids
RECURSIVE IdsAsc(_)
IdsAsc(S) ==
    IF S = {} THEN << >>
    ELSE LET m == CHOOSE x \in S : \A y \in S : x <= y
         IN << m >> \o IdsAsc(S \ {m})

\* GET /get-churches
get_my_churches(token) ==
    LET a == get_current_admin(token, users, now)
        mine == { i \in ChurchIds(churches) : churches[i].created_by = a.user }
    IN /\ last' = IF a.status # 200 THEN AuthFailure("get_my_churches", NoTarget, a)
                  ELSE Response("get_my_churches", 200, a.user, NoTarget,
                                [churches |-> IdsAsc(mine)])
       /\ UNCHANGED << users, churches, members, news, nextNewsId, issued,
                       now, ticks, joinReqs, millis, stored >>

\* GET /member/churches
member_list_churches(token) ==
    LET a == get_current_user(token, users, now) IN
    /\ last' = IF a.status # 200 THEN AuthFailure("member_list_churches", NoTarget, a)
               ELSE Response("member_list_churches", 200, a.user, NoTarget,
                             [churches |-> IdsAsc(ChurchIds(churches))])
    /\ UNCHANGED << users, churches, members, news, nextNewsId, issued,
                    now, ticks, joinReqs, millis, stored >>

----------------------------------------------------------------------------
(* app/routers/news.py *)

\* the title and content fields of the news forms: a blank title, a blank
\* content, and two titles (one to be trimmed) with a content
NewsTexts ==
    { [title |-> << " " >>, content |-> << "c" >>],
      [title |-> << "t" >>, content |-> << " " >>],
      [title |-> << "t" >>, content |-> << "c" >>],
      [title |-> << "u", " " >>, content |-> << "c" >>] }

NoPage == None

NewsIds(ns) == { n.id : n \in ns }

NewsById(ns, id) == CHOOSE n \in ns : n.id = id

\* ensure_church_owned without the created_by filter: any existing church passes
ensure_church_owned_AnyOwner(chs, church_id, admin_id) ==
    IF church_id \in ChurchIds(chs)
    THEN [status |-> 200, church |-> church_id, detail |-> "ok"]
    ELSE [status |-> 403, church |-> 0,
          detail |-> "You are not authorized to manage news for this church."]

\* ensure_church_owned as two lookups: 404 for a missing church, 403 for a
\* church of another admin
ensure_church_owned_TwoLookups(chs, church_id, admin_id) ==
    IF church_id \notin ChurchIds(chs)
    THEN [status |-> 404, church |-> 0, detail |-> "Church not found."]
    ELSE IF chs[church_id].created_by # admin_id
    THEN [status |-> 403, church |-> 0,
          detail |-> "You are not authorized to manage news for this church."]
    ELSE [status |-> 200, church |-> church_id, detail |-> "ok"]

\* ensure_church_owned: one lookup filtered by id and by created_by; the
\* church when it finds a row, 403 otherwise
ensure_church_owned(chs, church_id, admin_id) ==
    IF \E i \in ChurchIds(chs) : i = church_id /\ chs[i].created_by = admin_id
    THEN [status |-> 200, church |-> church_id,
          detail |-> "ok"]
    ELSE [status |-> 403, church |-> 0,
          detail |-> "You are not authorized to manage news for this church."]

\* NewsOut(...) as the responses carry it
NewsOut(n) ==
    [id |-> n.id, title |-> n.title, content |-> n.content,
     church_id |-> n.church_id, created_by |-> n.created_by,
     created_at |-> n.created_at, updated_at |-> n.updated_at,
     image |-> n.image]

\* the response of POST /news/create-news in the state (us, chs, t), were
\* the row inserted with id newId
CreateNewsResponse(us, chs, t, newId, token, title, content, church_id, news_image) ==
    LET a == get_current_admin(token, us, t) IN
    IF a.status # 200 THEN AuthFailure("create_news", church_id, a)
    ELSE IF Strip(title) = << >> \/ Strip(content) = << >>
    THEN Response("create_news", 400, a.user, church_id,
                  [detail |-> "Title and content are required."])
    ELSE IF ensure_church_owned(chs, church_id, a.user).status # 200
    THEN Response("create_news", ensure_church_owned(chs, church_id, a.user).status,
                  a.user, church_id,
                  [detail |-> ensure_church_owned(chs, church_id, a.user).detail])
    ELSE IF ~news_image.present
    THEN Response("create_news", 400, a.user, church_id, [detail |-> "News image is required."])
    ELSE IF news_image.bytes = << >>
    THEN Response("create_news", 400, a.user, church_id, [detail |-> "News image file is empty."])
    ELSE Response("create_news", 200, a.user, church_id,
                  [newsItem |->
                     [id |-> newId, title |-> Strip(title), content |-> Strip(content),
                      church_id |-> church_id, created_by |-> a.user,
                      created_at |-> t, updated_at |-> t,
                      image |-> UploadUrl(NewsPrefix, t, millis, news_image.filename)]])

\* POST /news/create-news
create_NewsAdmin(token, title, content, church_id, news_image) ==
    LET r == CreateNewsResponse(users, churches, now, nextNewsId, token, title,
                                content, church_id, news_image)
    IN /\ last' = r
       /\ IF r.status = 200
          THEN /\ nextNewsId <= MaxNews
               /\ news' = news \cup { r.body.newsItem }
               /\ nextNewsId' = nextNewsId + 1
               /\ stored' = stored \cup { StoredFile(NewsPrefix, now, millis, news_image) }
          ELSE UNCHANGED << news, nextNewsId, stored >>
       /\ UNCHANGED << users, churches, members, issued, now, ticks, joinReqs, millis >>

\* the creator check left out
NotCreator_Never(n, admin_id) == FALSE

\* the creator check of delete_NewsAdmin and update_NewsAdmin
NotCreator(n, admin_id) == n.created_by # admin_id

\* the response of POST /news/delete
DeleteNewsResponse(us, ns, t, token, id) ==
    LET a == get_current_admin(token, us, t) IN
    IF a.status # 200 THEN AuthFailure("delete_news", id, a)
    ELSE IF id \notin NewsIds(ns)
    THEN Response("delete_news", 404, a.user, id, [detail |-> "News item not found."])
    ELSE IF NotCreator(NewsById(ns, id), a.user)
    THEN Response("delete_news", 403, a.user, id,
                  [detail |-> "You are not authorized to delete this news item."])
    ELSE Response("delete_news", 200, a.user, id,
                  [detail |-> "News item deleted successfully.", id |-> id])

\* POST /news/delete
delete_NewsAdmin(token, id) ==
    LET r == DeleteNewsResponse(users, news, now, token, id)
    IN /\ last' = r
       /\ news' = IF r.status = 200 THEN news \ { NewsById(news, id) } ELSE news
       /\ UNCHANGED << users, churches, members, nextNewsId, issued, now,
                       ticks, joinReqs, millis, stored >>

\* the response of POST /news/update
UpdateNewsResponse(us, ns, t, token, id, title, content, news_image) ==
    LET a == get_current_admin(token, us, t) IN
    IF a.status # 200 THEN AuthFailure("update_news", id, a)
    ELSE IF id \notin NewsIds(ns)
    THEN Response("update_news", 404, a.user, id, [detail |-> "News item not found."])
    ELSE IF NotCreator(NewsById(ns, id), a.user)
    THEN Response("update_news", 403, a.user, id,
                  [detail |-> "You are not authorized to update this news item."])
    ELSE IF Strip(title) = << >> \/ Strip(content) = << >>
    THEN Response("update_news", 400, a.user, id,
                  [detail |-> "Title and content are required."])
    ELSE IF news_image.present /\ news_image.bytes = << >>
    THEN Response("update_news", 400, a.user, id, [detail |-> "News image file is empty."])
    ELSE Response("update_news", 200, a.user, id,
                  [newsItem |->
                     [NewsById(ns, id) EXCEPT
                        !.title = Strip(title),
                        !.content = Strip(content),
                        !.image = IF news_image.present
                                  THEN UploadUrl(NewsPrefix, t, millis, news_image.filename)
                                  ELSE @,
                        !.updated_at = t]])

\* POST /news/update
update_NewsAdmin(token, id, title, content, news_image) ==
    LET r == UpdateNewsResponse(users, news, now, token, id, title, content, news_image)
    IN /\ last' = r
       /\ news' = IF r.status = 200
                  THEN (news \ { NewsById(news, id) }) \cup { r.body.newsItem }
                  ELSE news
       /\ stored' = IF r.status = 200 /\ news_image.present
                    THEN stored \cup { StoredFile(NewsPrefix, now, millis, news_image) }
                    ELSE stored
       /\ UNCHANGED << users, churches, members, nextNewsId, issued, now,
                       ticks, joinReqs, millis >>

\* the rows of base_query: filter(church_id == church_id, created_by == admin.id)
BaseQuery(ns, church_id, admin_id) ==
    { n \in ns : n.church_id = church_id /\ n.created_by = admin_id }

\* order_by(NewsAdmin.created_at.desc()): the sequences the database may
\* return for the rows rs; it is free in the order of rows with equal created_at
OrderByCreatedAtDesc(rs) ==
    { o \in [1..Cardinality(rs) -> rs] :
        /\ \A i, j \in 1..Cardinality(rs) : i # j => o[i] # o[j]
        /\ \A i, j \in 1..Cardinality(rs) : i < j => o[i].created_at >= o[j].created_at }

Offset(page, per_page) == (page - 1) * per_page

\* .offset(offset).limit(per_page).all() over the ordered rows
OffsetLimit(ordered, offset, per_page) ==
    SubSeq(ordered, offset + 1,
           IF offset + per_page < Len(ordered) THEN offset + per_page ELSE Len(ordered))

\* next_page with the comparison made inclusive
NextPage_Inclusive(page, offset, items_received, total_count) ==
    IF offset + items_received <= total_count THEN page + 1 ELSE NoPage

NextPage(page, offset, items_received, total_count) ==
    IF offset + items_received < total_count THEN page + 1 ELSE NoPage

PrevPage(page) == IF page > 1 THEN page - 1 ELSE NoPage

\* the NewsListPayload of one page, ordered being the ordered base_query
NewsListPayload(ordered, page, per_page) ==
    LET offset == Offset(page, per_page)
        items_db == OffsetLimit(ordered, offset, per_page)
    IN [itemsReceived |-> Len(items_db),
        curPage |-> page,
        nextPage |-> NextPage(page, offset, Len(items_db), Len(ordered)),
        prevPage |-> PrevPage(page),
        offset |-> offset,
        perPage |-> per_page,
        items |-> [i \in 1..Len(items_db) |-> NewsOut(items_db[i])]]

\* the response of GET /news/get-news when the database orders base_query as ordered
GetNewsResponse(us, chs, t, token, church_id, page, per_page, ordered) ==
    LET a == get_current_admin(token, us, t) IN
    IF a.status # 200 THEN AuthFailure("get_news", church_id, a)
    ELSE IF ensure_church_owned(chs, church_id, a.user).status # 200
    THEN Response("get_news", ensure_church_owned(chs, church_id, a.user).status,
                  a.user, church_id,
                  [detail |-> ensure_church_owned(chs, church_id, a.user).detail])
    ELSE Response("get_news", 200, a.user, church_id,
                  [newsList |-> NewsListPayload(ordered, page, per_page)])

\* GET /news/get-news
get_NewsAdmin(token, church_id, page, per_page) ==
    LET a == get_current_admin(token, users, now) IN
    /\ \E ordered \in OrderByCreatedAtDesc(BaseQuery(news, church_id, a.user)) :
          last' = GetNewsResponse(users, churches, now, token, church_id, page,
                                  per_page, ordered)
    /\ UNCHANGED << users, churches, members, news, nextNewsId, issued, now,
                    ticks, joinReqs, millis, stored >>

----------------------------------------------------------------------------
(* app/routers/members.py *)

\* GET /member/news-by-church
member_news_by_church(token, church_id) ==
    LET a == get_current_user(token, users, now) IN
    /\ \E ordered \in OrderByCreatedAtDesc({ n \in news : n.church_id = church_id }) :
          last' = IF a.status # 200 THEN AuthFailure("news_by_church", church_id, a)
                  ELSE Response("news_by_church", 200, a.user, church_id,
                                [items |-> [i \in 1..Len(ordered) |-> NewsOut(ordered[i])]])
    /\ UNCHANGED << users, churches, members, news, nextNewsId, issued, now,
                    ticks, joinReqs, millis, stored >>

\* the membership filter with its two columns mixed up
Memberships_Swapped(ms, user_id, church_id) ==
    { i \in 1..Len(ms) : ms[i].user = church_id /\ ms[i].church = user_id }

\* the membership rows filter(user == user_id, church == church_id) selects
Memberships(ms, user_id, church_id) ==
    { i \in 1..Len(ms) : ms[i].user = user_id /\ ms[i].church = church_id }

\* the join response that re-stamps the membership it reports
JoinResponse_Restamped(user_id, joined, membership) ==
    [op |-> "join", status |-> 200, caller |-> user_id, target |-> membership.church,
     body |-> [message |-> IF joined THEN "Joined church successfully"
                           ELSE "Already a member of this church",
               joined |-> joined,
               membership |-> [membership EXCEPT !.joined_at = now]]]

JoinResponse(user_id, joined, membership) ==
    Response("join", 200, user_id, membership.church,
             [message |-> IF joined THEN "Joined church successfully"
                          ELSE "Already a member of this church",
              joined |-> joined,
              membership |-> membership])

\* step 3 of member_join_church: the new row, stamped with the current instant
NewMembership(ms, user_id, church_id, t) ==
    [id |-> Len(ms) + 1, user |-> user_id, church |-> church_id,
     created_at |-> t, joined_at |-> t]

\* member_join_church up to the point where it has found no membership:
\* steps 1 and 2.  It answers at once on a failure or an existing row
\* (.first() returns any of the rows that match); otherwise the request
\* goes on to its insert
member_join_church_check(token, church_id) ==
    LET a == get_current_user(token, users, now) IN
    IF a.status # 200
    THEN /\ last' = AuthFailure("join", church_id, a)
         /\ UNCHANGED << users, churches, members, news, nextNewsId, issued,
                         now, ticks, joinReqs, millis, stored >>
    ELSE IF church_id \notin ChurchIds(churches)
    THEN /\ last' = Response("join", 404, a.user, church_id, [detail |-> "Church not found."])
         /\ UNCHANGED << users, churches, members, news, nextNewsId, issued,
                         now, ticks, joinReqs, millis, stored >>
    ELSE IF Memberships(members, a.user, church_id) # {}
    THEN /\ \E m \in Memberships(members, a.user, church_id) :
               last' = JoinResponse(a.user, FALSE, members[m])
         /\ UNCHANGED << users, churches, members, news, nextNewsId, issued,
                         now, ticks, joinReqs, millis, stored >>
    ELSE /\ Len(members) + Len(joinReqs) < MaxMembers
         /\ joinReqs' = Append(joinReqs, [user |-> a.user, church |-> church_id])
         /\ UNCHANGED << users, churches, members, news, nextNewsId, issued,
                         now, ticks, last, millis, stored >>

\* step 3 as an insert-if-absent: a request that finds a row by now reports it
member_join_church_insert_IfAbsent(k) ==
    LET req == joinReqs[k]
        membership == NewMembership(members, req.user, req.church, now)
    IN /\ joinReqs' = SubSeq(joinReqs, 1, k - 1) \o SubSeq(joinReqs, k + 1, Len(joinReqs))
       /\ IF Memberships(members, req.user, req.church) # {}
          THEN /\ \E m \in Memberships(members, req.user, req.church) :
                     last' = JoinResponse(req.user, FALSE, members[m])
               /\ UNCHANGED members
          ELSE /\ members' = Append(members, membership)
               /\ last' = JoinResponse(req.user, TRUE, membership)
       /\ UNCHANGED << users, churches, news, nextNewsId, issued, now, ticks, millis, stored >>

\* step 3 of the join request at position k of joinReqs: insert and answer
member_join_church_insert(k) ==
    LET req == joinReqs[k]
        membership == NewMembership(members, req.user, req.church, now)
    IN /\ members' = Append(members, membership)
       /\ joinReqs' = SubSeq(joinReqs, 1, k - 1) \o SubSeq(joinReqs, k + 1, Len(joinReqs))
       /\ last' = JoinResponse(req.user, TRUE, membership)
       /\ UNCHANGED << users, churches, news, nextNewsId, issued, now, ticks, millis, stored >>

\* POST /member/churches/joinchurch handled without another join request
\* in between
member_join_church(token, church_id) ==
    LET a == get_current_user(token, users, now) IN
    IF a.status # 200
    THEN /\ last' = AuthFailure("join", church_id, a)
         /\ UNCHANGED << users, churches, members, news, nextNewsId, issued,
                         now, ticks, joinReqs, millis, stored >>
    ELSE IF church_id \notin ChurchIds(churches)
    THEN /\ last' = Response("join", 404, a.user, church_id, [detail |-> "Church not found."])
         /\ UNCHANGED << users, churches, members, news, nextNewsId, issued,
                         now, ticks, joinReqs, millis, stored >>
    ELSE IF Memberships(members, a.user, church_id) # {}
    THEN /\ \E m \in Memberships(members, a.user, church_id) :
               last' = JoinResponse(a.user, FALSE, members[m])
         /\ UNCHANGED << users, churches, members, news, nextNewsId, issued,
                         now, ticks, joinReqs, millis, stored >>
    ELSE LET membership == NewMembership(members, a.user, church_id, now)
         IN /\ Len(members) < MaxMembers
            /\ members' = Append(members, membership)
            /\ last' = JoinResponse(a.user, TRUE, membership)
            /\ UNCHANGED << users, churches, news, nextNewsId, issued, now,
                            ticks, joinReqs, millis, stored >>

----------------------------------------------------------------------------
(* The specifications *)

ClockSteps == { 1, JWT_ACCESS_TOKEN_EXPIRE_MINUTES }

\* the tokens the endpoints handed out
Handed == { i.token : i \in issued }

\* Accounts and tokens: the signup and login endpoints, the clock, and the
\* church endpoints as the requests that carry a bearer token
NextAuth ==
    \/ \E d \in ClockSteps : Tick(d)
    \/ \E e \in Emails, p \in SignupPasswords : admin_signup(e, p)
    \/ \E e \in Emails, p \in SignupPasswords : member_signup(e, p)
    \/ \E e \in Emails, p \in Passwords : login(e, p)
    \/ \E tok \in Presentable : get_my_churches(tok)
    \/ \E tok \in Presentable : member_list_churches(tok)

SpecAuth == Init /\ [][NextAuth]_vars

\* the church ids and news ids requests name: those that exist and one that
\* does not
ChurchIdsNamed == ChurchIds(churches) \cup { Len(churches) + 1 }

NewsIdsNamed == NewsIds(news) \cup { nextNewsId }

ValidNewsTexts ==
    { tx \in NewsTexts : Strip(tx.title) # << >> /\ Strip(tx.content) # << >> }

\* the create-news forms: every valid text with every church named and a
\* file, and for the first church the blank texts and the forms without a
\* file or with an empty one
CreateNewsForms(texts) ==
    { f \in [text : texts, church_id : ChurchIdsNamed, image : Uploads] :
        \/ f.text \in ValidNewsTexts /\ f.image = FileUpload
        \/ f.church_id = 1 /\ f.image = FileUpload
        \/ f.church_id = 1 /\ f.text.title = << "t" >> /\ f.text \in ValidNewsTexts }

\* the update forms: every valid text for every news id named, and for the
\* first news item the blank texts and an empty file
UpdateNewsForms ==
    { f \in [text : NewsTexts, id : NewsIdsNamed, image : { NoUpload, EmptyUpload }] :
        \/ f.text \in ValidNewsTexts /\ f.image = NoUpload
        \/ f.id = 1 /\ f.image = NoUpload
        \/ f.id = 1 /\ f.text.title = << "t" >> /\ f.text \in ValidNewsTexts }

\* what the news specifications share: admins who sign up at the start,
\* their churches, and the creation of news
NewsSetup(texts) ==
    \/ \E e \in AdminEmails, p \in SignupPasswords : (now = 0 /\ admin_signup(e, p))
    \/ \E tok \in Handed : create_church(tok, NoUpload)
    \/ \E tok \in Handed, f \in CreateNewsForms(texts) :
          create_NewsAdmin(tok, f.text.title, f.text.content, f.church_id, f.image)

\* Churches and their news: admins create, update and delete news
NextNews ==
    \/ NewsSetup(NewsTexts)
    \/ \E tok \in Handed, id \in NewsIdsNamed : delete_NewsAdmin(tok, id)
    \/ \E tok \in Handed, f \in UpdateNewsForms :
          update_NewsAdmin(tok, f.id, f.text.title, f.text.content, f.image)

SpecNews == Init /\ [][NextNews]_vars

\* Churches and their news: admins create news as the clock moves on,
\* admins and members list them
NextNewsList ==
    \/ (ticks < MaxRowTicks /\ Tick(1))
    \/ NewsSetup({ [title |-> << "t" >>, content |-> << "c" >>] })
    \/ \E tok \in Handed, c \in ChurchIdsNamed, page \in 1..MaxPage,
          per_page \in 1..MaxPerPage :
          get_NewsAdmin(tok, c, page, per_page)
    \/ \E tok \in Handed, c \in ChurchIdsNamed : member_news_by_church(tok, c)

SpecNewsList == Init /\ [][NextNewsList]_vars

\* what the join specifications share: users who sign up at the start,
\* churches and the clock
JoinSetup ==
    \/ (ticks < MaxRowTicks /\ Tick(1))
    \/ \E e \in AdminEmails, p \in SignupPasswords : (now = 0 /\ admin_signup(e, p))
    \/ \E tok \in Handed : create_church(tok, NoUpload)

\* Memberships, the join requests of concurrent workers interleaving
\* between their existence check and their insert
NextJoin ==
    \/ JoinSetup
    \/ \E tok \in Handed, c \in ChurchIdsNamed : member_join_church_check(tok, c)
    \/ \E k \in 1..Len(joinReqs) : member_join_church_insert(k)

SpecJoin == Init /\ [][NextJoin]_vars

\* Memberships, every join request running from its check to its insert
\* with no other join request in between
NextJoinSeq ==
    \/ JoinSetup
    \/ \E tok \in Handed, c \in ChurchIdsNamed : member_join_church(tok, c)

SpecJoinSeq == Init /\ [][NextJoinSeq]_vars

\* the original filenames uploads carry: one with a space, the same with an
\* underscore in its place
UploadNames == { << "a", " ", "b" >>, << "a", "_", "b" >> }

NamedUpload(name) == [present |-> TRUE, filename |-> name, bytes |-> << "x" >>]

\* how far the clock moves between two uploads of the same minute: a
\* millisecond or a second
MilliSteps == { 1, 1000 }

\* Uploads: one admin creates churches with logos and news with images and
\* replaces news images, while the clock moves on within the minute
NextUpload ==
    \/ \E d \in MilliSteps : TickMillis(d)
    \/ \E p \in SignupPasswords : (users = << >> /\ admin_signup(<< "a" >>, p))
    \/ \E tok \in Handed, n \in UploadNames : create_church(tok, NamedUpload(n))
    \/ \E tok \in Handed, c \in ChurchIds(churches), n \in UploadNames :
          create_NewsAdmin(tok, << "t" >>, << "c" >>, c, NamedUpload(n))
    \/ \E tok \in Handed, id \in NewsIds(news), n \in UploadNames :
          update_NewsAdmin(tok, id, << "t" >>, << "c" >>, NamedUpload(n))

SpecUpload == Init /\ [][NextUpload]_vars

\* The whole service
Next == NextAuth \/ NextNews \/ NextNewsList \/ NextJoin \/ NextUpload

Spec == Init /\ [][Next]_vars

----------------------------------------------------------------------------
(* Claims about tokens and their resolution, under SpecAuth *)

Expired(token) == token.payload.exp < now

\* C1: every token an issuing endpoint (/auth/signup, /member/signup,
\* /auth/login) handed to a user resolves through get_current_user to that
\* user, as long as the token has not expired (users are never deleted).
C1_IssuedTokenResolves ==
    \A i \in issued :
        ~Expired(i.token) =>
            get_current_user(i.token, users, now) = [status |-> 200, user |-> i.user]

\* C2: whatever bearer token a request carries, get_current_user either
\* returns the resolved user or raises the one authentication failure (401);
\* no other error outcome is reachable.  GET /member/churches depends on
\* get_current_user alone, so its status is that of get_current_user.
C2_UserOrUnauthorized ==
    last.op = "member_list_churches" => last.status \in { 200, 401 }

----------------------------------------------------------------------------
(* Claims about the ownership guard and the news endpoints *)

\* the admins a handed token resolves to
AdminCallers ==
    { get_current_admin(tok, users, now).user :
        tok \in { t \in Handed : get_current_admin(t, users, now).status = 200 } }

TokensOf(admin_id) ==
    { t \in Handed : get_current_admin(t, users, now) = [status |-> 200, user |-> admin_id] }

Owns(admin_id, church_id) ==
    church_id \in ChurchIds(churches) /\ churches[church_id].created_by = admin_id

Forbidden403 ==
    [status |-> 403, church |-> None,
     detail |-> "You are not authorized to manage news for this church."]

\* C3: ensure_church_owned(church_id, admin_id) returns the church if and
\* only if a church with that id exists and its created_by is admin_id; in
\* every other case, church missing or owned by another admin, it fails
\* with the identical 403, so GET /news/get-news for a church of another
\* admin answers Forbidden and carries no news list.  Checked under
\* SpecNewsList.
C3_OwnedOrForbidden ==
    /\ \A a \in UserIds(users), c \in ChurchIdsNamed :
          ensure_church_owned(churches, c, a) =
              IF Owns(a, c) THEN [status |-> 200, church |-> c, detail |-> "ok"]
              ELSE Forbidden403
    /\ \A a \in AdminCallers, c \in ChurchIdsNamed,
          page \in 1..MaxPage, per_page \in 1..MaxPerPage :
          \A tok \in TokensOf(a) :
          ~Owns(a, c) =>
              \A ordered \in OrderByCreatedAtDesc({ n \in news : n.church_id = c }) :
                  LET r == GetNewsResponse(users, churches, now, tok, c, page,
                                           per_page, ordered)
                  IN r.status = 403 /\ r.body = [detail |-> Forbidden403.detail]
    /\ (last.op = "get_news" /\ last.status # 200) =>
          (last.status = 403 /\ ~Owns(last.caller, last.target))
    /\ (last.op = "get_news" /\ last.status = 200) => Owns(last.caller, last.target)

\* admin 1 asked for the news of a church that exists and belongs to
\* another admin, and was answered Forbidden
C3_Witness ==
    /\ last.op = "get_news"
    /\ last.status = 403
    /\ last.target \in ChurchIds(churches)
    /\ churches[last.target].created_by # last.caller
    /\ \E c \in ChurchIds(churches) : churches[c].created_by = last.caller

\* what a caller sees of a response
SameOutcome(r1, r2) == r1.status = r2.status /\ r1.body = r2.body

UpdateInputs == NewsTexts \X { NoUpload, EmptyUpload, FileUpload }

\* for create-news and get-news, a church of another admin and a church
\* that does not exist are answered alike
ChurchExistenceHidden(a, tok) ==
    \A c1 \in ChurchIds(churches), c2 \in ChurchIdsNamed \ ChurchIds(churches) :
        ~Owns(a, c1) =>
            /\ \A tx \in NewsTexts, img \in Uploads :
                  SameOutcome(
                      CreateNewsResponse(users, churches, now, nextNewsId, tok,
                                         tx.title, tx.content, c1, img),
                      CreateNewsResponse(users, churches, now, nextNewsId, tok,
                                         tx.title, tx.content, c2, img))
            /\ \A page \in 1..MaxPage, per_page \in 1..MaxPerPage :
                  \A o1 \in OrderByCreatedAtDesc(BaseQuery(news, c1, a)),
                     o2 \in OrderByCreatedAtDesc(BaseQuery(news, c2, a)) :
                     SameOutcome(
                         GetNewsResponse(users, churches, now, tok, c1, page, per_page, o1),
                         GetNewsResponse(users, churches, now, tok, c2, page, per_page, o2))

C5_OnlyCreatorMutates ==
    [][ \A n \in news :
          /\ \A a \in AdminCallers \ { n.created_by } : \A tok \in TokensOf(a) :
                /\ DeleteNewsResponse(users, news, now, tok, n.id).status = 403
                /\ \A in \in UpdateInputs :
                      UpdateNewsResponse(users, news, now, tok, n.id, in[1].title,
                                         in[1].content, in[2]).status = 403
          /\ n \notin news' =>
                /\ last'.op \in { "delete_news", "update_news" }
                /\ last'.status = 200
                /\ last'.target = n.id
                /\ last'.caller = n.created_by
          /\ (last' # last /\ last'.op \in { "delete_news", "update_news" }
                /\ last'.target = n.id /\ last'.caller # n.created_by) =>
                (last'.status \in { 401, 403, 500 } /\ news' = news)
      ]_vars

\* another admin than its creator tried to delete or update an item that
\* exists, and was answered Forbidden
C5_Witness ==
    /\ last.op \in { "delete_news", "update_news" }
    /\ last.status = 403
    /\ \E n \in news : n.id = last.target /\ n.created_by # last.caller
    /\ last.caller \in AdminCallers

\* C6: every news item's church_id references an existing church whose
\* created_by equals the item's created_by, after any sequence of signup,
\* create-church, create-news, update and delete.  Checked under SpecNews.
C6_OwnershipChain ==
    \A n \in news :
        /\ n.church_id \in ChurchIds(churches)
        /\ churches[n.church_id].created_by = n.created_by
        /\ n.created_by \in UserIds(users)

\* an item was updated while two admins each own a church
C6_Witness ==
    /\ last.op = "update_news"
    /\ last.status = 200
    /\ news # {}
    /\ \E c1, c2 \in ChurchIds(churches) :
          churches[c1].created_by # churches[c2].created_by

----------------------------------------------------------------------------
(* Claims about memberships *)

\* the latest response is the 200 of a join of user u to church c
JoinAnswered(u, c) ==
    /\ last.op = "join"
    /\ last.status = 200
    /\ last.caller = u
    /\ last.target = c

\* C7 (under SpecJoinSeq): a user who calls join twice in sequence for the
\* same church receives joined=true, then joined=false, and both responses
\* carry the same membership payload: the first call answers joined=true
\* with the row it inserts, every later call answers joined=false with that
\* stored row and inserts nothing.
C7_JoinTwice ==
    [][ \A u \in UserIds(users), c \in ChurchIds(churches) :
          /\ (Memberships(members, u, c) = {} /\ JoinAnswered(u, c)')
                => /\ last'.body.joined
                   /\ members' = Append(members, last'.body.membership)
          /\ (Memberships(members, u, c) # {} /\ JoinAnswered(u, c)' /\ last' # last)
                => /\ ~last'.body.joined
                   /\ members' = members
                   /\ \E m \in Memberships(members, u, c) :
                         last'.body.membership = members[m]
          /\ (JoinAnswered(u, c) /\ last.body.joined /\ JoinAnswered(u, c)' /\ last' # last)
                => /\ ~last'.body.joined
                   /\ last'.body.membership = last.body.membership
      ]_vars

\* a second join has been answered, later than the first
C7_Witness ==
    /\ last.op = "join"
    /\ last.status = 200
    /\ ~last.body.joined
    /\ \E m \in 1..Len(members) :
          /\ members[m] = last.body.membership
          /\ members[m].user = last.caller
          /\ members[m].church = last.target
          /\ members[m].joined_at < now

\* C8 (under SpecJoinSeq): without interleaving, the join sequence (look up,
\* insert if absent) leaves at most one membership row per (user, church)
\* pair.
C8_OneRowPerPair ==
    \A i, j \in 1..Len(members) :
        (members[i].user = members[j].user /\ members[i].church = members[j].church)
            => i = j

\* rows exist and a join for a pair that has one has just been answered
C8_Witness ==
    /\ Len(members) = MaxMembers
    /\ last.op = "join"
    /\ last.status = 200
    /\ ~last.body.joined

----------------------------------------------------------------------------
(* Claims about pagination, under SpecNewsList *)

\* ceil(n / k)
PageCount(n, k) == (n + k - 1) \div k

PageIds(ordered, page, per_page) ==
    LET items == NewsListPayload(ordered, page, per_page).items
    IN [i \in 1..Len(items) |-> items[i].id]

\* the ids get-news returns for pages p..pages, the database ordering the
\* base query as orders[q] when page q is asked for
RECURSIVE PagesFrom(_, _, _, _)
PagesFrom(orders, per_page, p, pages) ==
    IF p > pages THEN << >>
    ELSE PageIds(orders[p], p, per_page) \o PagesFrom(orders, per_page, p + 1, pages)

\* C10: for a church with N matching news items and any per_page K, with no
\* mutation between the calls, the item lists get-news returns for pages
\* 1..ceil(N/K) concatenate to the full filtered collection, no item twice
\* and none missing.
C10_PagesPartition ==
    \A a \in AdminCallers, c \in ChurchIds(churches), per_page \in 1..MaxPerPage :
        Owns(a, c) =>
            LET rows == BaseQuery(news, c, a)
                pages == PageCount(Cardinality(rows), per_page)
            IN \A orders \in [1..pages -> OrderByCreatedAtDesc(rows)] :
                  LET ids == PagesFrom(orders, per_page, 1, pages)
                  IN /\ Len(ids) = Cardinality(rows)
                     /\ \A i, j \in 1..Len(ids) : i # j => ids[i] # ids[j]
                     /\ { ids[i] : i \in 1..Len(ids) } = NewsIds(rows)

----------------------------------------------------------------------------
(* Claims about the page links of get-news, under SpecNewsList *)

\* the latest response is a page of get-news
NewsPageAnswered == last.op = "get_news" /\ last.status = 200

\* the number of the last page of a collection of n items: page 1 when it
\* is empty
LastPage(n, per_page) == IF n = 0 THEN 1 ELSE PageCount(n, per_page)

\* C11: get-news returns nextPage = page + 1 exactly when
\* offset + itemsReceived < total count of the filtered collection, and
\* prevPage = page - 1 exactly when page > 1, each absent otherwise; so
\* nextPage is absent exactly on the last page and beyond it, and a page
\* beyond the end has no items but still carries prevPage.
C11_PageLinks ==
    NewsPageAnswered =>
        LET p == last.body.newsList
            total == Cardinality(BaseQuery(news, last.target, last.caller))
        IN /\ p.offset = (p.curPage - 1) * p.perPage
           /\ p.itemsReceived = Len(p.items)
           /\ p.nextPage = (IF p.offset + p.itemsReceived < total
                            THEN p.curPage + 1 ELSE NoPage)
           /\ p.prevPage = (IF p.curPage > 1 THEN p.curPage - 1 ELSE NoPage)
           /\ (p.nextPage = NoPage) <=> (p.curPage >= LastPage(total, p.perPage))
           /\ p.curPage > LastPage(total, p.perPage)
                 => (p.items = << >> /\ p.prevPage = p.curPage - 1)
           /\ p.curPage < LastPage(total, p.perPage)
                 => p.itemsReceived = p.perPage

\* a page beyond the end of a collection that has items
C11_Witness ==
    /\ NewsPageAnswered
    /\ BaseQuery(news, last.target, last.caller) # {}
    /\ last.body.newsList.curPage
          > LastPage(Cardinality(BaseQuery(news, last.target, last.caller)),
                     last.body.newsList.perPage)
    /\ last.body.newsList.items = << >>
    /\ last.body.newsList.prevPage # NoPage

----------------------------------------------------------------------------
(* Claims about the order of listings, under SpecNewsList *)

\* the latest response is a listing of news: a page of get-news or the
\* list of news-by-church
ListingAnswered ==
    /\ last.op \in { "get_news", "news_by_church" }
    /\ last.status = 200

\* the request parameters a 200 listing response r echoes
ListingRequest(r) ==
    IF r.op = "get_news"
    THEN << r.op, r.caller, r.target, r.body.newsList.curPage, r.body.newsList.perPage >>
    ELSE << r.op, r.caller, r.target >>

\* C12: the order in which news items are paged and listed is fully
\* deterministic (created_at descending, ties broken by id): two listings of
\* the same unchanged collection, asked for with the same parameters, return
\* the items in the same sequence.
C12_DeterministicOrder ==
    [][ ( /\ ListingAnswered
          /\ ListingAnswered'
          /\ ListingRequest(last') = ListingRequest(last)
          /\ news' = news )
        => last'.body = last.body
      ]_vars

----------------------------------------------------------------------------
(* Claims about accounts, under SpecAuth *)

\* C13: in every reachable state no two User rows have emails that are
\* equal after case normalization: a signup through /auth/signup or
\* /member/signup with an email matching an existing user's email ignoring
\* case is rejected and creates no user.
C13_EmailsUniqueIgnoringCase ==
    \A i, j \in 1..Len(users) :
        Lower(users[i].email) = Lower(users[j].email) => i = j


\* C14: a token whose expiration instant (issuance time + TTL) is in the
\* past is always rejected by get_current_user, even when its signature is
\* valid and its subject is an existing user; until that instant the same
\* token is accepted whatever else has changed on the server (no revocation).
C14_ExpiryNoRevocation ==
    \A i \in issued :
        LET r == get_current_user(i.token, users, now) IN
        /\ i.token.payload.exp >= JWT_ACCESS_TOKEN_EXPIRE_MINUTES
        /\ Expired(i.token) => r = [status |-> 401, user |-> NoUser]
        /\ ( /\ ~Expired(i.token)
             /\ IntOfStr(i.token.payload.sub).ok
             /\ IntOfStr(i.token.payload.sub).val \in UserIds(users) )
              => r = [status |-> 200, user |-> IntOfStr(i.token.payload.sub).val]

\* a user holds an expired token and a later one that is still valid, and
\* a request has just been refused with 401
C14_Witness ==
    /\ last.op \in { "member_list_churches", "get_my_churches" }
    /\ last.status = 401
    /\ \E i, j \in issued :
          /\ i.user = j.user
          /\ i.token.sig /\ j.token.sig
          /\ IntOfStr(i.token.payload.sub).ok
          /\ IntOfStr(i.token.payload.sub).val \in UserIds(users)
          /\ Expired(i.token)
          /\ ~Expired(j.token)
          /\ get_current_user(j.token, users, now).status = 200

----------------------------------------------------------------------------
(* Claims about uploaded files, under SpecUpload *)

\* C15: two distinct upload requests (church logo, news image on create or
\* update) are written to the same stored file only if they carry the same
\* original filename and occur within the same millisecond; in every other
\* case each upload gets its own stored file, so no earlier upload's bytes
\* are overwritten.
C15_SameFileOnlySameNameSameMillisecond ==
    \A f, g \in stored :
        f.path = g.path => (f.filename = g.filename /\ f.at = g.at)

----------------------------------------------------------------------------
(* Claims about signup followed by login, under SpecAuth *)

\* the emails a signup that created the row u can have submitted:
\* /auth/signup stores the email as submitted, /member/signup stores it
\* stripped and lower-cased
SubmittedEmails(u) ==
    IF u.is_admin THEN { e \in Emails : e = u.email }
    ELSE { e \in Emails : Lower(Strip(e)) = u.email }

\* the user /auth/login returns a token for when username and password are
\* submitted, NoUser when it answers "Invalid credentials"
LoginUser(us, username, password) ==
    LET email == Lower(Strip(username)) IN
    IF UserByEmail(us, email) = {} THEN NoUser
    ELSE IF ~verify_password(password, us[FirstUserByEmail(us, email)].password)
    THEN NoUser
    ELSE FirstUserByEmail(us, email)

\* C16: every account created through /auth/signup or /member/signup with
\* email E and password P can afterwards log in through /auth/login with the
\* same E and P: login finds the stored user and returns a token for it,
\* also when E contains upper-case letters.
C16_SignupThenLogin ==
    \A i \in UserIds(users) :
        \A e \in SubmittedEmails(users[i]) :
            LoginUser(users, e, users[i].password.of) = i

----------------------------------------------------------------------------
(* Claims relating get-news to news-by-church, under SpecNewsList *)

\* the news items of a church, whoever created them: the rows
\* member_news_by_church lists
ChurchNews(ns, church_id) == { n \in ns : n.church_id = church_id }

\* the items on pages 1..ceil(N / per_page) of get-news, the database
\* ordering base_query as ordered
ItemsOverPages(ordered, per_page) ==
    UNION { { NewsListPayload(ordered, page, per_page).items[i] :
                i \in 1..NewsListPayload(ordered, page, per_page).itemsReceived } :
            page \in 1..PageCount(Len(ordered), per_page) }

\* C17: for an admin who owns church C the created_by == admin.id filter of
\* get-news removes nothing: the items reachable over all pages of get-news
\* for C are the items news-by-church returns for C, and the total count
\* used for nextPage is the number of news items with church_id = C.
C17_OwnerFilterRemovesNothing ==
    /\ \A a \in AdminCallers, c \in ChurchIds(churches) :
          Owns(a, c) =>
              /\ BaseQuery(news, c, a) = ChurchNews(news, c)
              /\ \A ordered \in OrderByCreatedAtDesc(BaseQuery(news, c, a)) :
                    /\ Len(ordered) = Cardinality(ChurchNews(news, c))
                    /\ \A per_page \in 1..MaxPerPage :
                          ItemsOverPages(ordered, per_page)
                              = { NewsOut(n) : n \in ChurchNews(news, c) }
    /\ (last.op = "news_by_church" /\ last.status = 200
            /\ last.target \in ChurchIds(churches))
          => { last.body.items[i] : i \in 1..Len(last.body.items) }
                = { NewsOut(n) : n \in BaseQuery(news, last.target,
                                                 churches[last.target].created_by) }

\* two admins have signed up, and news-by-church has just listed the two
\* news items of a church
C17_Witness ==
    /\ Len(users) > 1
    /\ last.op = "news_by_church"
    /\ last.status = 200
    /\ last.target \in ChurchIds(churches)
    /\ Len(last.body.items) > 1
    /\ Cardinality(BaseQuery(news, last.target, churches[last.target].created_by)) > 1

====
